---- MODULE Spec2Model ----
\* Model of the repository of
\* src/src/infrastructure/repository/create-repository.ts: the chunked
\* parallel batch insert (createMany), the parser of finder method names
\* (parser.ts) and the proxy that answers the properties of a repository.
\*
\* One createMany call is followed from its invocation to its completion and
\* beyond (backend operations that outlive the call).  JavaScript runs the
\* synchronous part of the call to completion; backend operations settle and
\* promise reactions run only while the call is suspended at its await.
\*
\* An optional value (undefined in the source) is a sequence of length 0 or 1:
\* <<>> is undefined, <<v>> is the value v.  A string the program takes apart
\* is the sequence of its characters.
EXTENDS Integers, Sequences, FiniteSets, TLC

\* ---------------------------------------------------------------- bounds
MaxLen == 3          \* longest records input
MaxChunkSize == 3    \* largest chunkSize option a caller passes
MaxIter == 5         \* iterations of chunk's loop that are followed
MaxWords == 3        \* words after the prefix of a method name
MaxParts == 3        \* predicates of the finders called
MaxArgs == 3         \* arguments of a call
MaxTokenLen == 7     \* characters of a token given to toSnakeCase
MaxCalls == 3        \* invocations made one after another

\* -------------------------------------------------------------- constants
DEFAULT_CHUNK_SIZE == 1000

VARIABLES
  pc,         \* position of createMany: idle, chunking, mapping, awaiting, done
  data,       \* argument data: the records
  options,    \* argument options (optional)
  chunkSize,  \* local chunkSize of createMany
  i,          \* loop variable of chunk
  chunks,     \* local chunks of chunk, then of createMany
  ops,        \* the promises returned by chunks.map: one backend insert each
  settled,    \* chunk indices in the order their promises settled
  reacted,    \* how many of those settlements Promise.all has reacted to
  pall,       \* the promise returned by Promise.all
  outcome,    \* the settlement of the promise returned by createMany
  table       \* records the backend has inserted

\* the variables of one createMany call
createManyVars == <<pc, data, options, chunkSize, i, chunks, ops, settled,
                    reacted, pall, outcome, table>>

VARIABLES
  input,      \* argument methodName of a parseFinderMethod call
  parsed      \* what that call returned or threw

parserVars == <<input, parsed>>

VARIABLES
  ipc,          \* position of the invocation: idle, awaiting, done
  idColumn,     \* idColumn of the repository
  prop,         \* the property name got from the repository proxy
  args,         \* the arguments the property is called with
  methodCache,  \* the module's cache of parsed method names
  query,        \* the calls made on the backend's query builder, in order
  execution,    \* what the backend yields for the executed query
  result        \* what the invocation returned or threw

finderVars == <<ipc, idColumn, prop, args, methodCache, query, execution,
                result>>

VARIABLES
  token,       \* argument str of the first toSnakeCase call
  normalized   \* what the toSnakeCase calls returned, in order

normalizerVars == <<token, normalized>>

VARIABLES
  handle,   \* the repository the property is got from
  parses,   \* the parseFinderMethod calls made: name and repository
  calls     \* the number of invocations made

sessionVars == <<handle, parses, calls>>

vars == <<createManyVars, parserVars, finderVars, normalizerVars,
          sessionVars>>

\* ------------------------------------------------------------ input sets
Records == {[k \in 1..n |-> k] : n \in 0..MaxLen}

ChunkSizeOpts == {<<>>} \cup {<<s>> : s \in -1..MaxChunkSize}

SkipReturnOpts == {<<>>, <<TRUE>>, <<FALSE>>}

Options ==
  {<<>>} \cup {<<[chunkSize |-> c, skipReturn |-> s]>> :
                 c \in ChunkSizeOpts, s \in SkipReturnOpts}

\* ---------------------------------------------------------- pure helpers
Min(a, b) == IF a < b THEN a ELSE b

Max(a, b) == IF a > b THEN a ELSE b

\* slice with the end index taken as inclusive
sliceInclusive(array, start, end) ==
  LET len == Len(array)
      from == IF start < 0 THEN Max(len + start, 0) ELSE Min(start, len)
      to == IF end < 0 THEN Max(len + end, 0) ELSE Min(end, len)
  IN SubSeq(array, from + 1, Min(to + 1, len))

\* Array.prototype.slice(start, end) with its treatment of negative and
\* out-of-range indices (0-based, end exclusive).
slice(array, start, end) ==
  LET len == Len(array)
      from == IF start < 0 THEN Max(len + start, 0) ELSE Min(start, len)
      to == IF end < 0 THEN Max(len + end, 0) ELSE Min(end, len)
  IN SubSeq(array, from + 1, to)

\* options?.skipReturn as a condition
skipReturn(o) ==
  /\ o # <<>>
  /\ o[1].skipReturn = <<TRUE>>

\* options?.chunkSize ?? DEFAULT_CHUNK_SIZE
chunkSizeOf(o) ==
  IF o = <<>> \/ o[1].chunkSize = <<>>
  THEN DEFAULT_CHUNK_SIZE
  ELSE o[1].chunkSize[1]

NoOutcome == [kind |-> "pending", rows |-> <<>>, count |-> 0, err |-> 0]

RowsOutcome(rows) == [kind |-> "rows", rows |-> rows, count |-> 0, err |-> 0]

CountOutcome(c) == [kind |-> "count", rows |-> <<>>, count |-> c, err |-> 0]

ErrorOutcome(e) == [kind |-> "error", rows |-> <<>>, count |-> 0, err |-> e]

\* the early return with its two results exchanged
EmptyResultSwapped(o) ==
  IF skipReturn(o) THEN RowsOutcome(<<>>) ELSE CountOutcome(0)

\* the early return for empty data
EmptyResult(o) == IF skipReturn(o) THEN CountOutcome(0) ELSE RowsOutcome(<<>>)

\* the chunk results concatenated last chunk first
RECURSIVE flatReversed(_)
flatReversed(results) ==
  IF results = <<>>
  THEN <<>>
  ELSE flatReversed(Tail(results)) \o Head(results)

\* results.flat(): the chunk results concatenated in index order
RECURSIVE flat(_)
flat(results) ==
  IF results = <<>> THEN <<>> ELSE Head(results) \o flat(Tail(results))

\* Number(insertResult[0]?.numInsertedOrUpdatedRows ?? 0)
numInserted(insertResult) ==
  IF insertResult = <<>> \/ insertResult[1] = <<>>
  THEN 0
  ELSE insertResult[1][1]

\* a reduce that drops the accumulated sum
reduceCountLast(results) ==
  IF results = <<>> THEN 0 ELSE numInserted(results[Len(results)])

\* results.reduce((sum, result) => sum + ..., 0)
RECURSIVE reduceCount(_)
reduceCount(results) ==
  IF results = <<>>
  THEN 0
  ELSE reduceCount(SubSeq(results, 1, Len(results) - 1))
         + numInserted(results[Len(results)])

\* ------------------------------------------------------------ the backend
\* The row the backend returns for an inserted record.
RowOf(r) == [record |-> r]

\* returningAll(): one row per record of the batch, in whatever order the
\* backend returns them.
ReturnedRows(batch) ==
  {[k \in 1..Len(batch) |-> RowOf(batch[p[k]])] :
     p \in {q \in [1..Len(batch) -> 1..Len(batch)] :
              \A a, b \in 1..Len(batch) : a # b => q[a] # q[b]}}

\* execute() without returningAll(): an array of insert results whose
\* numInsertedOrUpdatedRows may be undefined; the array may be empty.
InsertResults(batch) ==
  {<<>>, << <<>> >>} \cup {<< <<c>> >> : c \in 0..Len(batch)}

\* ------------------------------------------------------------ Promise.all
\* before Promise.all is called there is no such promise
NoPromise == [state |-> "none", values |-> <<>>, remaining |-> 0, reason |-> 0]

\* the promise Promise.all returns for n elements
PendingAll(n) ==
  [state |-> IF n = 0 THEN "fulfilled" ELSE "pending",
   values |-> [k \in 1..n |-> <<>>],
   remaining |-> n,
   reason |-> 0]

\* element k fulfilled with v: v is stored at the first free index
storeValueOnArrival(vals, k, v) ==
  LET free == {j \in DOMAIN vals : vals[j] = <<>>}
  IN [vals EXCEPT ![CHOOSE j \in free : \A m \in free : j <= m] = <<v>>]

\* element k fulfilled with v: v is stored at index k
storeValue(vals, k, v) == [vals EXCEPT ![k] = <<v>>]

\* fulfilled one element early
allFulfilledButOne(remaining) == remaining <= 1

\* all elements are fulfilled
allFulfilled(remaining) == remaining = 0

\* every rejection overwrites the reason
rejectAllLast(p, e) == [p EXCEPT !.state = "rejected", !.reason = e]

\* a promise settles once: a later settlement is ignored
rejectAll(p, e) ==
  IF p.state = "pending"
  THEN [p EXCEPT !.state = "rejected", !.reason = e]
  ELSE p

\* callbacks also run between two iterations of chunks.map
SuspendedInMap == pc \in {"mapping", "awaiting", "done"}

\* the event loop runs callbacks only while createMany is not executing
Suspended == pc \in {"awaiting", "done"}

\* ---------------------------------------------------------------- strings
\* the suffix of IsNull spelled Null
charsOverlapping ==
  [
   findAllBy |-> <<"f", "i", "n", "d", "A", "l", "l", "B", "y">>,
   findBy |-> <<"f", "i", "n", "d", "B", "y">>,
   OrderBy |-> <<"O", "r", "d", "e", "r", "B", "y">>,
   And |-> <<"A", "n", "d">>,
   Desc |-> <<"D", "e", "s", "c">>,
   Asc |-> <<"A", "s", "c">>,
   GreaterThanEqual |-> <<"G", "r", "e", "a", "t", "e", "r", "T", "h", "a", "n", "E", "q", "u", "a", "l">>,
   LessThanEqual |-> <<"L", "e", "s", "s", "T", "h", "a", "n", "E", "q", "u", "a", "l">>,
   GreaterThan |-> <<"G", "r", "e", "a", "t", "e", "r", "T", "h", "a", "n">>,
   LessThan |-> <<"L", "e", "s", "s", "T", "h", "a", "n">>,
   IsNotNull |-> <<"I", "s", "N", "o", "t", "N", "u", "l", "l">>,
   IsNull |-> <<"N", "u", "l", "l">>,
   Like |-> <<"L", "i", "k", "e">>,
   In |-> <<"I", "n">>
  ]

\* A string is the sequence of its characters.  chars gives the characters
\* of the string literals of the parser.
chars ==
  [
   findAllBy |-> <<"f", "i", "n", "d", "A", "l", "l", "B", "y">>,
   findBy |-> <<"f", "i", "n", "d", "B", "y">>,
   OrderBy |-> <<"O", "r", "d", "e", "r", "B", "y">>,
   And |-> <<"A", "n", "d">>,
   Desc |-> <<"D", "e", "s", "c">>,
   Asc |-> <<"A", "s", "c">>,
   GreaterThanEqual |-> <<"G", "r", "e", "a", "t", "e", "r", "T", "h", "a", "n", "E", "q", "u", "a", "l">>,
   LessThanEqual |-> <<"L", "e", "s", "s", "T", "h", "a", "n", "E", "q", "u", "a", "l">>,
   GreaterThan |-> <<"G", "r", "e", "a", "t", "e", "r", "T", "h", "a", "n">>,
   LessThan |-> <<"L", "e", "s", "s", "T", "h", "a", "n">>,
   IsNotNull |-> <<"I", "s", "N", "o", "t", "N", "u", "l", "l">>,
   IsNull |-> <<"I", "s", "N", "u", "l", "l">>,
   Like |-> <<"L", "i", "k", "e">>,
   In |-> <<"I", "n">>
  ]

UpperChars == <<"A", "B", "C", "D", "E", "F", "G", "H", "I", "J", "K", "L", "M", "N", "O", "P", "Q", "R", "S", "T", "U", "V", "W", "X", "Y", "Z">>

LowerChars == <<"a", "b", "c", "d", "e", "f", "g", "h", "i", "j", "k", "l", "m", "n", "o", "p", "q", "r", "s", "t", "u", "v", "w", "x", "y", "z">>

DigitChars == <<"0", "1", "2", "3", "4", "5", "6", "7", "8", "9">>

\* [A-Z]
isUpper(c) == \E k \in DOMAIN UpperChars : UpperChars[k] = c

\* [a-z\d]
isLowerOrDigit(c) ==
  \/ \E k \in DOMAIN LowerChars : LowerChars[k] = c
  \/ \E k \in DOMAIN DigitChars : DigitChars[k] = c

\* [a-z]
isLower(c) == \E k \in DOMAIN LowerChars : LowerChars[k] = c

\* the last character kept as it is
toLowerCaseButLast(str) ==
  [k \in DOMAIN str |->
     IF isUpper(str[k]) /\ k < Len(str)
     THEN LowerChars[CHOOSE u \in DOMAIN UpperChars : UpperChars[u] = str[k]]
     ELSE str[k]]

\* String.prototype.toLowerCase
toLowerCase(str) ==
  [k \in DOMAIN str |->
     IF isUpper(str[k])
     THEN LowerChars[CHOOSE u \in DOMAIN UpperChars : UpperChars[u] = str[k]]
     ELSE str[k]]

\* String.prototype.startsWith
startsWith(str, p) == Len(str) >= Len(p) /\ SubSeq(str, 1, Len(p)) = p

\* String.prototype.endsWith
endsWith(str, p) ==
  Len(str) >= Len(p) /\ SubSeq(str, Len(str) - Len(p) + 1, Len(str)) = p

\* String.prototype.indexOf: 0-based index of the first occurrence, or -1
indexOf(str, p) ==
  LET hits == {k \in 0..(Len(str) - Len(p)) : SubSeq(str, k + 1, k + Len(p)) = p}
  IN IF hits = {} THEN -1 ELSE CHOOSE k \in hits : \A m \in hits : k <= m

\* String.prototype.split with a non-empty separator
RECURSIVE split(_, _)
split(str, sep) ==
  LET at == indexOf(str, sep)
  IN IF at = -1
     THEN <<str>>
     ELSE <<SubSeq(str, 1, at)>>
            \o split(SubSeq(str, at + Len(sep) + 1, Len(str)), sep)

\* ------------------------------------------------------------- toSnakeCase
\* length of the run of uppercase letters of str that starts at index from
RECURSIVE upperRun(_, _)
upperRun(str, from) ==
  IF from > Len(str) \/ ~isUpper(str[from])
  THEN 0
  ELSE 1 + upperRun(str, from + 1)

\* .replace(/^([A-Z]+)([A-Z][a-z])/, '$1_$2')
replaceLeading(str) ==
  LET run == upperRun(str, 1)
  IN IF run >= 2 /\ run < Len(str) /\ isLower(str[run + 1])
     THEN SubSeq(str, 1, run - 1) \o <<"_">> \o SubSeq(str, run, Len(str))
     ELSE str

\* .replace(/([a-z\d])([A-Z]+)([A-Z][a-z])/g, '$1_$2_$3'), from index from on
RECURSIVE replaceMiddle(_, _)
replaceMiddle(str, from) ==
  IF from > Len(str)
  THEN <<>>
  ELSE LET run == upperRun(str, from + 1)
       IN IF /\ isLowerOrDigit(str[from])
             /\ run >= 2
             /\ from + run < Len(str)
             /\ isLower(str[from + run + 1])
          THEN <<str[from], "_">> \o SubSeq(str, from + 1, from + run - 1)
                 \o <<"_", str[from + run], str[from + run + 1]>>
                 \o replaceMiddle(str, from + run + 2)
          ELSE <<str[from]>> \o replaceMiddle(str, from + 1)

\* .replace(/([a-z\d])([A-Z])/g, '$1_$2'), from index from on
RECURSIVE replaceSingle(_, _)
replaceSingle(str, from) ==
  IF from > Len(str)
  THEN <<>>
  ELSE IF /\ from < Len(str)
          /\ isLowerOrDigit(str[from])
          /\ isUpper(str[from + 1])
       THEN <<str[from], "_", str[from + 1]>> \o replaceSingle(str, from + 2)
       ELSE <<str[from]>> \o replaceSingle(str, from + 1)

toSnakeCase(str) ==
  IF str = <<>>
  THEN str
  ELSE toLowerCase(replaceSingle(replaceMiddle(replaceLeading(str), 1), 1))

\* ------------------------------------------------------------------ parser
FINDER_PREFIXES == <<"findAllBy", "findBy">>

COMPARISON_SUFFIXES ==
  <<"GreaterThanEqual", "LessThanEqual", "GreaterThan", "LessThan",
    "IsNotNull", "IsNull", "Like", "In">>

COMPARISON_MAP ==
  [GreaterThanEqual |-> "gte",
   LessThanEqual |-> "lte",
   GreaterThan |-> "gt",
   LessThan |-> "lt",
   IsNotNull |-> "isNotNull",
   IsNull |-> "isNull",
   Like |-> "like",
   In |-> "in"]

\* FINDER_PREFIXES.find((p) => methodName.startsWith(p)): <<>> when none
findPrefix(methodName) ==
  LET hits == {k \in DOMAIN FINDER_PREFIXES :
                 startsWith(methodName, chars[FINDER_PREFIXES[k]])}
  IN IF hits = {}
     THEN <<>>
     ELSE <<FINDER_PREFIXES[CHOOSE k \in hits : \A m \in hits : k <= m]>>

\* the loop of parseColumnPart over suffixes[from..]
RECURSIVE parseColumnPartFrom(_, _, _)
parseColumnPartFrom(part, suffixes, from) ==
  IF from > Len(suffixes)
  THEN [name |-> toSnakeCase(part), comparison |-> "eq"]
  ELSE IF endsWith(part, chars[suffixes[from]])
       THEN [name |-> toSnakeCase(
                        slice(part, 0, 0 - Len(chars[suffixes[from]]))),
             comparison |-> COMPARISON_MAP[suffixes[from]]]
       ELSE parseColumnPartFrom(part, suffixes, from + 1)

\* the first suffix never tried
parseColumnPartSkipping(part) ==
  parseColumnPartFrom(part, COMPARISON_SUFFIXES, 2)

\* parseColumnPart(part)
parseColumnPart(part) == parseColumnPartFrom(part, COMPARISON_SUFFIXES, 1)

\* the error without the method name
InvalidFinderNameAnonymous(methodName, reason) ==
  [error |-> <<[code |-> "INVALID_FINDER_NAME", methodName |-> <<>>,
                reason |-> reason]>>,
   prefix |-> "", columns |-> <<>>, orderBy |-> <<>>]

\* a RepositoryError with code INVALID_FINDER_NAME; reason tells the messages
\* apart
InvalidFinderName(methodName, reason) ==
  [error |-> <<[code |-> "INVALID_FINDER_NAME", methodName |-> methodName,
                reason |-> reason]>>,
   prefix |-> "", columns |-> <<>>, orderBy |-> <<>>]

\* the ParsedMethod parseFinderMethod returns
ParsedMethod(prefix, columns, orderBy) ==
  [error |-> <<>>, prefix |-> prefix, columns |-> columns, orderBy |-> orderBy]

\* the direction always ascending
parseOrderByAscending(orderByPart) ==
  IF endsWith(orderByPart, chars["Desc"])
  THEN [column |-> toSnakeCase(slice(orderByPart, 0, -4)),
        direction |-> "asc"]
  ELSE IF endsWith(orderByPart, chars["Asc"])
       THEN [column |-> toSnakeCase(slice(orderByPart, 0, -3)),
             direction |-> "asc"]
       ELSE [column |-> toSnakeCase(orderByPart), direction |-> "asc"]

\* the orderBy object built from the text after OrderBy
parseOrderBy(orderByPart) ==
  IF endsWith(orderByPart, chars["Desc"])
  THEN [column |-> toSnakeCase(slice(orderByPart, 0, -4)),
        direction |-> "desc"]
  ELSE IF endsWith(orderByPart, chars["Asc"])
       THEN [column |-> toSnakeCase(slice(orderByPart, 0, -3)),
             direction |-> "asc"]
       ELSE [column |-> toSnakeCase(orderByPart), direction |-> "asc"]

parseFinderMethod(methodName) ==
  LET prefix == findPrefix(methodName)
  IN IF prefix = <<>>
     THEN InvalidFinderName(methodName, "prefix")
     ELSE
       LET rest0 == slice(methodName, Len(chars[prefix[1]]), Len(methodName))
           orderByIndex == indexOf(rest0, chars["OrderBy"])
           orderByPart == slice(rest0, orderByIndex + 7, Len(rest0))
           rest == IF orderByIndex # -1
                   THEN slice(rest0, 0, orderByIndex)
                   ELSE rest0
           parts == split(rest, chars["And"])
       IN IF rest0 = <<>>
          THEN InvalidFinderName(methodName, "no column after prefix")
          ELSE IF orderByIndex # -1 /\ orderByPart = <<>>
          THEN InvalidFinderName(methodName, "no column after OrderBy")
          ELSE IF rest = <<>>
          THEN InvalidFinderName(methodName, "no column before OrderBy")
          ELSE IF \E k \in DOMAIN parts : parts[k] = <<>>
          THEN InvalidFinderName(methodName, "empty column name")
          ELSE ParsedMethod(
                 prefix[1],
                 [k \in DOMAIN parts |-> parseColumnPart(parts[k])],
                 IF orderByIndex # -1
                 THEN <<parseOrderBy(orderByPart)>>
                 ELSE <<>>)

\* ==================================================== derived finders
\* ------------------------------------------------------------- JS values
\* The value of a property of an argument: its type and, for a number, the
\* number.
Undefined == [type |-> "undefined", n |-> 0]

Number(n) == [type |-> "number", n |-> n]

String == [type |-> "string", n |-> 0]

\* An argument of a call: id tells the arguments of a call apart, kind is
\* primitive, null or object; limit and offset are the properties of these
\* names of an object (<<>> when the object has no such key).
Value(id, kind, limit, offset) ==
  [id |-> id, kind |-> kind, limit |-> limit, offset |-> offset]

\* the null a filter on IS NULL is given
Null == Value(0, "null", <<>>, <<>>)

\* -------------------------------------------------------------- the cache
\* any stored value, whatever its key
cacheGetAny(cache, methodName) ==
  IF cache # {}
  THEN <<(CHOOSE e \in cache : TRUE).value>>
  ELSE <<>>

\* methodCache.get(methodName): <<>> when undefined
cacheGet(cache, methodName) ==
  IF \E e \in cache : e.key = methodName
  THEN <<(CHOOSE e \in cache : e.key = methodName).value>>
  ELSE <<>>

\* the entry stored in place of all the others
cacheSetOnly(cache, methodName, value) ==
  {[key |-> methodName, value |-> value]}

\* methodCache.set(methodName, parsed)
cacheSet(cache, methodName, value) ==
  {e \in cache : e.key # methodName}
    \cup {[key |-> methodName, value |-> value]}

\* every lookup taken as a miss
notParsedEver(hit) == TRUE

\* !parsed
notParsed(hit) == hit = <<>>

\* what parseFinderMethod throws stored as well
getCachedMethodStoringFailures(cache, methodName) ==
  LET hit == cacheGet(cache, methodName)
      fresh == parseFinderMethod(methodName)
  IN IF ~ notParsed(hit)
     THEN [parsed |-> hit[1], cache |-> cache, ran |-> FALSE]
     ELSE [parsed |-> fresh, cache |-> cacheSet(cache, methodName, fresh),
           ran |-> TRUE]

\* getCachedMethod: the parsed method, or the error parseFinderMethod threw,
\* the cache afterwards and whether parseFinderMethod was called
getCachedMethod(cache, methodName) ==
  LET hit == cacheGet(cache, methodName)
      fresh == parseFinderMethod(methodName)
  IN IF ~ notParsed(hit)
     THEN [parsed |-> hit[1], cache |-> cache, ran |-> FALSE]
     ELSE IF fresh.error # <<>>
          THEN [parsed |-> fresh, cache |-> cache, ran |-> TRUE]
          ELSE [parsed |-> fresh, cache |-> cacheSet(cache, methodName, fresh),
                ran |-> TRUE]

\* ----------------------------------------------------------- the options
\* any object having a limit or an offset key
isQueryOptionsAnyType(value) ==
  /\ value.kind = "object"
  /\ (value.limit # <<>> \/ value.offset # <<>>)

\* isQueryOptions(value)
isQueryOptions(value) ==
  /\ value.kind = "object"
  /\ \/ /\ value.limit # <<>>
        /\ value.limit[1].type \in {"number", "undefined"}
     \/ /\ value.offset # <<>>
        /\ value.offset[1].type \in {"number", "undefined"}

\* extractOptions(args, isMultiple)
extractOptions(a, isMultiple) ==
  IF isMultiple /\ Len(a) > 0 /\ isQueryOptions(a[Len(a)])
  THEN [options |-> <<a[Len(a)]>>, values |-> slice(a, 0, -1)]
  ELSE [options |-> <<>>, values |-> a]

\* ------------------------------------------------------ the query builder
\* one call on the query builder
Call(call, column, operator, value) ==
  [call |-> call, column |-> column, operator |-> operator, value |-> value]

OPERATOR_MAP ==
  [eq |-> "=", gt |-> ">", gte |-> ">=", lt |-> "<", lte |-> "<=",
   in |-> "in", like |-> "like", isNull |-> "is", isNotNull |-> "is not"]

\* the loop of applyWhereClausesGeneric from column from on: the where calls
RECURSIVE applyWhereClausesFrom(_, _, _, _)
applyWhereClausesFrom(columns, values, from, valueIndex) ==
  IF from > Len(columns)
  THEN <<>>
  ELSE LET col == columns[from]
       IN IF col.comparison \in {"isNull", "isNotNull"}
          THEN <<Call("where", col.name, OPERATOR_MAP[col.comparison],
                      <<Null>>)>>
                 \o applyWhereClausesFrom(columns, values, from + 1,
                                          valueIndex)
          ELSE <<Call("where", col.name, OPERATOR_MAP[col.comparison],
                      IF valueIndex + 1 \in DOMAIN values
                      THEN <<values[valueIndex + 1]>> ELSE <<>>)>>
                 \o applyWhereClausesFrom(columns, values, from + 1,
                                          valueIndex + 1)

\* the values bound from the second on
applyWhereClausesOffByOne(parsedMethod, values) ==
  applyWhereClausesFrom(parsedMethod.columns, values, 1, 1)

applyWhereClausesGeneric(parsedMethod, values) ==
  applyWhereClausesFrom(parsedMethod.columns, values, 1, 0)

\* the number of arguments a finder expects
expectedArgs(parsedMethod) ==
  Cardinality({k \in DOMAIN parsedMethod.columns :
                 parsedMethod.columns[k].comparison
                   \notin {"isNull", "isNotNull"}})

\* the query executed before its ordering and pagination are applied
finderQueryExecutedEarly(parsedMethod, opts, values, isMultiple) ==
  <<Call("selectFrom", <<>>, "", <<>>), Call("selectAll", <<>>, "", <<>>)>>
    \o applyWhereClausesGeneric(parsedMethod, values)
    \o <<Call(IF isMultiple THEN "execute" ELSE "executeTakeFirst",
              <<>>, "", <<>>)>>
    \o (IF parsedMethod.orderBy # <<>>
        THEN <<Call("orderBy", parsedMethod.orderBy[1].column,
                    parsedMethod.orderBy[1].direction, <<>>)>>
        ELSE <<>>)
    \o (IF opts # <<>> /\ opts[1].limit # <<>>
             /\ opts[1].limit[1].type # "undefined"
        THEN <<Call("limit", <<>>, "", opts[1].limit)>>
        ELSE <<>>)
    \o (IF opts # <<>> /\ opts[1].offset # <<>>
             /\ opts[1].offset[1].type # "undefined"
        THEN <<Call("offset", <<>>, "", opts[1].offset)>>
        ELSE <<>>)

\* the query a finder builds, up to its execution
finderQuery(parsedMethod, opts, values, isMultiple) ==
  <<Call("selectFrom", <<>>, "", <<>>), Call("selectAll", <<>>, "", <<>>)>>
    \o applyWhereClausesGeneric(parsedMethod, values)
    \o (IF parsedMethod.orderBy # <<>>
        THEN <<Call("orderBy", parsedMethod.orderBy[1].column,
                    parsedMethod.orderBy[1].direction, <<>>)>>
        ELSE <<>>)
    \o (IF opts # <<>> /\ opts[1].limit # <<>>
             /\ opts[1].limit[1].type # "undefined"
        THEN <<Call("limit", <<>>, "", opts[1].limit)>>
        ELSE <<>>)
    \o (IF opts # <<>> /\ opts[1].offset # <<>>
             /\ opts[1].offset[1].type # "undefined"
        THEN <<Call("offset", <<>>, "", opts[1].offset)>>
        ELSE <<>>)
    \o <<Call(IF isMultiple THEN "execute" ELSE "executeTakeFirst",
              <<>>, "", <<>>)>>

\* the query findById builds
findByIdQuery(column, id) ==
  <<Call("selectFrom", <<>>, "", <<>>), Call("selectAll", <<>>, "", <<>>),
    Call("where", column, "=", id), Call("executeTakeFirst", <<>>, "", <<>>)>>

\* ------------------------------------------------------------ the results
\* a returned value or a thrown error
Returned(kind, rows) == [kind |-> kind, rows |-> rows, error |-> <<>>]

Thrown(error) == [kind |-> "error", rows |-> <<>>, error |-> <<error>>]

ArgumentCountMismatch(methodName, expected, received) ==
  [code |-> "ARGUMENT_COUNT_MISMATCH", methodName |-> methodName,
   expected |-> expected, received |-> received]

MethodNotImplemented(methodName) ==
  [code |-> "METHOD_NOT_IMPLEMENTED", methodName |-> methodName]

\* the first row without ?? null
firstOrUndefined(rows) ==
  IF rows = <<>>
  THEN Returned("undefined", <<>>)
  ELSE Returned("row", <<rows[1]>>)

\* result ?? null of executeTakeFirst
firstOrNull(rows) ==
  IF rows = <<>> THEN Returned("null", <<>>) ELSE Returned("row", <<rows[1]>>)

\* ------------------------------------------------------------- the proxy
\* the keys of base
BaseMethods ==
  {<<"f", "i", "n", "d", "A", "l", "l">>,
   <<"f", "i", "n", "d", "B", "y", "I", "d">>,
   <<"c", "r", "e", "a", "t", "e">>,
   <<"u", "p", "d", "a", "t", "e">>,
   <<"d", "e", "l", "e", "t", "e">>,
   <<"s", "a", "v", "e">>,
   <<"c", "r", "e", "a", "t", "e", "M", "a", "n", "y">>,
   <<"u", "p", "d", "a", "t", "e", "M", "a", "n", "y">>,
   <<"d", "e", "l", "e", "t", "e", "M", "a", "n", "y">>,
   <<"q", "u", "e", "r", "y">>,
   <<"r", "a", "w">>,
   <<"c", "o", "u", "n", "t">>,
   <<"e", "x", "i", "s", "t", "s">>}

\* the properties base inherits from Object.prototype
ObjectPrototype ==
  {<<"c", "o", "n", "s", "t", "r", "u", "c", "t", "o", "r">>,
   <<"h", "a", "s", "O", "w", "n", "P", "r", "o", "p", "e", "r", "t", "y">>,
   <<"i", "s", "P", "r", "o", "t", "o", "t", "y", "p", "e", "O", "f">>,
   <<"p", "r", "o", "p", "e", "r", "t", "y", "I", "s", "E", "n", "u", "m", "e", "r", "a", "b", "l", "e">>,
   <<"t", "o", "L", "o", "c", "a", "l", "e", "S", "t", "r", "i", "n", "g">>,
   <<"t", "o", "S", "t", "r", "i", "n", "g">>,
   <<"v", "a", "l", "u", "e", "O", "f">>,
   <<"_", "_", "p", "r", "o", "t", "o", "_", "_">>,
   <<"_", "_", "d", "e", "f", "i", "n", "e", "G", "e", "t", "t", "e", "r", "_", "_">>,
   <<"_", "_", "d", "e", "f", "i", "n", "e", "S", "e", "t", "t", "e", "r", "_", "_">>,
   <<"_", "_", "l", "o", "o", "k", "u", "p", "G", "e", "t", "t", "e", "r", "_", "_">>,
   <<"_", "_", "l", "o", "o", "k", "u", "p", "S", "e", "t", "t", "e", "r", "_", "_">>}

\* the names with a finder prefix left to the finders
inTargetExceptFinders(p) ==
  /\ p \in BaseMethods \cup ObjectPrototype
  /\ ~ startsWith(p, chars["findBy"])

\* prop in target
inTarget(p) == p \in BaseMethods \cup ObjectPrototype

\* an unknown name answered with undefined
handlerGetLenient(p, cache) ==
  IF inTarget(p)
  THEN [kind |-> IF p \in BaseMethods THEN "base" ELSE "inherited",
        parsed |-> <<>>, error |-> <<>>, cache |-> cache,
        ran |-> FALSE]
  ELSE IF startsWith(p, chars["findAllBy"]) \/ startsWith(p, chars["findBy"])
  THEN LET got == getCachedMethod(cache, p)
       IN IF got.parsed.error # <<>>
          THEN [kind |-> "error", parsed |-> <<>>,
                error |-> got.parsed.error, cache |-> got.cache,
                ran |-> got.ran]
          ELSE [kind |-> "finder", parsed |-> <<got.parsed>>,
                error |-> <<>>, cache |-> got.cache, ran |-> got.ran]
  ELSE [kind |-> "inherited", parsed |-> <<>>, error |-> <<>>,
        cache |-> cache, ran |-> FALSE]

\* handler.get: what the proxy answers for the property, the cache
\* afterwards and whether parseFinderMethod was called
handlerGet(p, cache) ==
  IF inTarget(p)
  THEN [kind |-> IF p \in BaseMethods THEN "base" ELSE "inherited",
        parsed |-> <<>>, error |-> <<>>, cache |-> cache,
        ran |-> FALSE]
  ELSE IF startsWith(p, chars["findAllBy"]) \/ startsWith(p, chars["findBy"])
  THEN LET got == getCachedMethod(cache, p)
       IN IF got.parsed.error # <<>>
          THEN [kind |-> "error", parsed |-> <<>>,
                error |-> got.parsed.error, cache |-> got.cache,
                ran |-> got.ran]
          ELSE [kind |-> "finder", parsed |-> <<got.parsed>>,
                error |-> <<>>, cache |-> got.cache, ran |-> got.ran]
  ELSE [kind |-> "error", parsed |-> <<>>,
        error |-> <<MethodNotImplemented(p)>>, cache |-> cache,
        ran |-> FALSE]


\* ------------------------------------------------------------------ Init
\* no createMany call has been made
createManyIdle ==
  /\ pc = "idle"
  /\ data = <<>>
  /\ options = <<>>
  /\ chunkSize = 0
  /\ i = 0
  /\ chunks = <<>>
  /\ ops = <<>>
  /\ settled = <<>>
  /\ reacted = 0
  /\ pall = NoPromise
  /\ outcome = NoOutcome
  /\ table = {}

\* no parseFinderMethod call has been made
parserIdle ==
  /\ input = <<>>
  /\ parsed = <<>>

\* no property of the repository has been read
finderIdle ==
  /\ ipc = "idle"
  /\ prop = <<>>
  /\ args = <<>>
  /\ methodCache = {}
  /\ query = <<>>
  /\ execution = <<>>
  /\ result = <<>>

\* no toSnakeCase call has been made
normalizerIdle ==
  /\ token = <<>>
  /\ normalized = <<>>

\* no invocation has been made
sessionIdle ==
  /\ handle = "A"
  /\ parses = <<>>
  /\ calls = 0

\* the repository is created without options: idColumn is
\* options?.idColumn ?? 'id'
Init ==
  /\ createManyIdle
  /\ parserIdle
  /\ finderIdle
  /\ normalizerIdle
  /\ sessionIdle
  /\ idColumn = <<"i", "d">>

\* --------------------------------------------------------------- actions
\* createMany(data, options) up to the call of chunk
createMany(d, o) ==
  /\ pc = "idle"
  /\ data' = d
  /\ options' = o
  /\ IF Len(d) = 0
     THEN /\ pc' = "done"
          /\ outcome' = EmptyResult(o)
          /\ UNCHANGED <<chunkSize, i>>
     ELSE /\ pc' = "chunking"
          /\ chunkSize' = chunkSizeOf(o)
          /\ i' = 0
          /\ UNCHANGED outcome
  /\ UNCHANGED <<chunks, ops, settled, reacted, pall, table>>
  /\ UNCHANGED <<parserVars, finderVars, normalizerVars, sessionVars>>

\* one iteration of the loop of chunk
chunkStep ==
  /\ pc = "chunking"
  /\ i < Len(data)
  /\ Len(chunks) < MaxIter
  /\ chunks' = Append(chunks, slice(data, i, i + chunkSize))
  /\ i' = i + chunkSize
  /\ UNCHANGED <<pc, data, options, chunkSize, ops, settled, reacted, pall,
                 outcome, table>>
  /\ UNCHANGED <<parserVars, finderVars, normalizerVars, sessionVars>>

\* the loop of chunk ends and chunk returns
chunkReturn ==
  /\ pc = "chunking"
  /\ ~(i < Len(data))
  /\ pc' = "mapping"
  /\ UNCHANGED <<data, options, chunkSize, i, chunks, ops, settled, reacted,
                 pall, outcome, table>>
  /\ UNCHANGED <<parserVars, finderVars, normalizerVars, sessionVars>>

\* chunks.map: the callback starts the insert of the next batch
startChunk ==
  /\ pc = "mapping"
  /\ Len(ops) < Len(chunks)
  /\ ops' = Append(ops, [batch |-> chunks[Len(ops) + 1], st |-> "inflight",
                         result |-> <<>>, err |-> 0])
  /\ UNCHANGED <<pc, data, options, chunkSize, i, chunks, settled, reacted,
                 pall, outcome, table>>
  /\ UNCHANGED <<parserVars, finderVars, normalizerVars, sessionVars>>

\* await Promise.all(...): createMany suspends
awaitAll ==
  /\ pc = "mapping"
  /\ Len(ops) = Len(chunks)
  /\ pc' = "awaiting"
  /\ pall' = PendingAll(Len(ops))
  /\ UNCHANGED <<data, options, chunkSize, i, chunks, ops, settled, reacted,
                 outcome, table>>
  /\ UNCHANGED <<parserVars, finderVars, normalizerVars, sessionVars>>

\* the insert of chunk k succeeds
executeFulfilled(k) ==
  /\ Suspended
  /\ k \in DOMAIN ops
  /\ ops[k].st = "inflight"
  /\ \E r \in IF skipReturn(options)
              THEN InsertResults(ops[k].batch)
              ELSE ReturnedRows(ops[k].batch) :
       ops' = [ops EXCEPT ![k].st = "fulfilled", ![k].result = r]
  /\ table' = table \cup {ops[k].batch[j] : j \in 1..Len(ops[k].batch)}
  /\ settled' = Append(settled, k)
  /\ UNCHANGED <<pc, data, options, chunkSize, i, chunks, reacted, pall,
                 outcome>>
  /\ UNCHANGED <<parserVars, finderVars, normalizerVars, sessionVars>>

\* the insert of chunk k fails with its own error
executeRejected(k) ==
  /\ Suspended
  /\ k \in DOMAIN ops
  /\ ops[k].st = "inflight"
  /\ ops' = [ops EXCEPT ![k].st = "rejected", ![k].err = k]
  /\ settled' = Append(settled, k)
  /\ UNCHANGED <<pc, data, options, chunkSize, i, chunks, reacted, pall,
                 outcome, table>>
  /\ UNCHANGED <<parserVars, finderVars, normalizerVars, sessionVars>>

\* Promise.all reacts to the fulfilment of element k
promiseAllResolveElement(k) ==
  /\ ops[k].st = "fulfilled"
  /\ LET vals == storeValue(pall.values, k, ops[k].result)
         rem == pall.remaining - 1
     IN pall' = [pall EXCEPT
                   !.values = vals,
                   !.remaining = rem,
                   !.state = IF allFulfilled(rem) /\ pall.state = "pending"
                             THEN "fulfilled" ELSE @]
  /\ UNCHANGED ops

\* a rejection that also cancels the inserts still in flight
promiseAllRejectCancelling(k) ==
  /\ ops[k].st = "rejected"
  /\ pall' = rejectAll(pall, ops[k].err)
  /\ ops' = [j \in DOMAIN ops |->
              IF ops[j].st = "inflight"
              THEN [ops[j] EXCEPT !.st = "cancelled"]
              ELSE ops[j]]

\* Promise.all reacts to the rejection of element k
promiseAllReject(k) ==
  /\ ops[k].st = "rejected"
  /\ pall' = rejectAll(pall, ops[k].err)
  /\ UNCHANGED ops

\* the next promise reaction job, in the order the promises settled
reaction ==
  /\ pc \in {"awaiting", "done"}
  /\ reacted < Len(settled)
  /\ \/ promiseAllResolveElement(settled[reacted + 1])
     \/ promiseAllReject(settled[reacted + 1])
  /\ reacted' = reacted + 1
  /\ UNCHANGED <<pc, data, options, chunkSize, i, chunks, settled, outcome,
                 table>>
  /\ UNCHANGED <<parserVars, finderVars, normalizerVars, sessionVars>>

\* createMany resumes after the await and completes
resume ==
  /\ pc = "awaiting"
  /\ pall.state # "pending"
  /\ pc' = "done"
  /\ outcome' =
       IF pall.state = "rejected"
       THEN ErrorOutcome(pall.reason)
       ELSE LET results == [k \in 1..Len(pall.values) |->
                               IF pall.values[k] = <<>> THEN <<>>
                               ELSE pall.values[k][1]]
            IN IF skipReturn(options)
               THEN CountOutcome(reduceCount(results))
               ELSE RowsOutcome(flat(results))
  /\ UNCHANGED <<data, options, chunkSize, i, chunks, ops, settled, reacted,
                 pall, table>>
  /\ UNCHANGED <<parserVars, finderVars, normalizerVars, sessionVars>>

Next ==
  \/ \E d \in Records, o \in Options : createMany(d, o)
  \/ chunkStep
  \/ chunkReturn
  \/ startChunk
  \/ awaitAll
  \/ \E k \in 1..MaxIter : executeFulfilled(k)
  \/ \E k \in 1..MaxIter : executeRejected(k)
  \/ reaction
  \/ resume

Spec == Init /\ [][Next]_vars

\* ===================================================== parseFinderMethod
\* The words method names are put together from: two field names and the
\* words the grammar gives a meaning to.
Words ==
  <<
    <<"A", "g", "e">>,
    <<"U", "s", "e", "r", "I", "D">>,
    <<"A", "n", "d">>,
    <<"O", "r", "d", "e", "r", "B", "y">>,
    <<"G", "r", "e", "a", "t", "e", "r", "T", "h", "a", "n">>,
    <<"L", "e", "s", "s", "T", "h", "a", "n">>,
    <<"E", "q", "u", "a", "l">>,
    <<"I", "s", "N", "u", "l", "l">>,
    <<"I", "s", "N", "o", "t", "N", "u", "l", "l">>,
    <<"L", "i", "k", "e">>,
    <<"I", "n">>,
    <<"D", "e", "s", "c">>,
    <<"A", "s", "c">>
  >>

\* the texts of at most n words
RECURSIVE Texts(_)
Texts(n) ==
  IF n = 0
  THEN {<<>>}
  ELSE Texts(n - 1) \cup
         {t \o Words[w] : t \in Texts(n - 1), w \in DOMAIN Words}

\* the method names parseFinderMethod is called with: a finder prefix, at
\* most MaxWords words and possibly the ordering OrderByAgeDesc, or no finder
\* prefix
MethodNames ==
  {chars[p] \o t \o o :
     p \in {"findBy", "findAllBy"},
     t \in Texts(MaxWords),
     o \in {<<>>, chars["OrderBy"] \o Words[1] \o chars["Desc"]}}
    \cup {<<>>, <<"g", "e", "t", "B", "y">> \o Words[1],
          Words[1] \o chars["findBy"]}

InitParse ==
  /\ createManyIdle
  /\ finderIdle
  /\ normalizerIdle
  /\ sessionIdle
  /\ idColumn = <<"i", "d">>
  /\ input \in MethodNames
  /\ parsed = <<>>

\* the call parseFinderMethod(input)
parse ==
  /\ parsed = <<>>
  /\ parsed' = <<parseFinderMethod(input)>>
  /\ UNCHANGED <<input, createManyVars, finderVars, normalizerVars,
                 sessionVars>>

NextParse == parse

SpecParse == InitParse /\ [][NextParse]_vars

\* ============================================== the calls of a repository
\* The predicates the finders called are put together from.
Parts ==
  <<
    <<"A", "g", "e">>,
    <<"I", "d", "I", "s", "N", "u", "l", "l">>,
    <<"A", "g", "e", "L", "i", "k", "e">>
  >>

\* the conjunctions of at most n parts
RECURSIVE Conjunctions(_)
Conjunctions(n) ==
  IF n = 0
  THEN {<<>>}
  ELSE Conjunctions(n - 1) \cup
         {IF t = <<>> THEN Parts[w] ELSE t \o chars["And"] \o Parts[w] :
            t \in Conjunctions(n - 1), w \in DOMAIN Parts}

\* the finder names: a prefix, a conjunction and possibly an ordering
FinderNames ==
  {chars[p] \o c \o o :
     p \in {"findBy", "findAllBy"},
     c \in Conjunctions(MaxParts),
     o \in {<<>>, chars["OrderBy"] \o Parts[1]}}

\* names that are neither properties of base nor finders
OtherNames ==
  {<<"t", "h", "e", "n">>,
   <<"g", "e", "t", "B", "y", "A", "g", "e">>,
   <<"f", "i", "n", "d">>,
   <<"F", "i", "n", "d", "B", "y", "A", "g", "e">>}

\* the properties read from the repository
Props == BaseMethods \cup ObjectPrototype \cup OtherNames \cup FinderNames

\* The arguments of the calls. An argument before the last is a primitive or
\* { limit: 1 }; the last argument is one of: a primitive, null, {},
\* { limit: 1 }, { limit: 'x' }, { offset: undefined },
\* { limit: 1, offset: 2 }, { limit: 'x', offset: 2 }.
InnerShapes ==
  {Value(0, "primitive", <<>>, <<>>),
   Value(0, "object", <<Number(1)>>, <<>>)}

LastShapes ==
  {Value(0, "primitive", <<>>, <<>>),
   Value(0, "null", <<>>, <<>>),
   Value(0, "object", <<>>, <<>>),
   Value(0, "object", <<Number(1)>>, <<>>),
   Value(0, "object", <<String>>, <<>>),
   Value(0, "object", <<>>, <<Undefined>>),
   Value(0, "object", <<Number(1)>>, <<Number(2)>>),
   Value(0, "object", <<String>>, <<Number(2)>>)}

\* the argument lists of n arguments, the k-th having id k
ArgsOfLen(n) ==
  IF n = 0
  THEN {<<>>}
  ELSE {[k \in 1..n |->
           LET shape == IF k = n THEN last ELSE inner[k]
           IN Value(k, shape.kind, shape.limit, shape.offset)] :
          inner \in [1..(n - 1) -> InnerShapes], last \in LastShapes}

Args == UNION {ArgsOfLen(n) : n \in 0..MaxArgs}

\* the rows an execution yields
Yields == {<<>>, <<1>>, <<1, 2>>, <<2, 1>>}

\* the finder without the check of the number of arguments
createFinderFunctionUnchecked(methodName, parsedMethod, a) ==
  LET isMultiple == parsedMethod.prefix = "findAllBy"
      extracted == extractOptions(a, isMultiple)
  IN [query |-> finderQuery(parsedMethod, extracted.options,
                            extracted.values, isMultiple),
      result |-> <<>>]

\* the query and the result of the function createFinderFunction returns,
\* up to the execution of the query
createFinderFunction(methodName, parsedMethod, a) ==
  LET isMultiple == parsedMethod.prefix = "findAllBy"
      extracted == extractOptions(a, isMultiple)
      expected == expectedArgs(parsedMethod)
  IN IF Len(extracted.values) # expected
     THEN [query |-> <<>>,
           result |-> <<Thrown(ArgumentCountMismatch(methodName, expected,
                                 Len(extracted.values)))>>]
     ELSE [query |-> finderQuery(parsedMethod, extracted.options,
                                 extracted.values, isMultiple),
           result |-> <<>>]

\* what the awaited execution of the query gives the caller
returned(q, rows) ==
  IF q[Len(q)].call = "execute"
  THEN Returned("rows", rows)
  ELSE firstOrNull(rows)

\* the call with arguments a of what the proxy answered for the property p,
\* up to the execution of a query: the query built and the result, if the
\* call ends without one
call(p, got, a, column) ==
  IF got.kind = "error"
  THEN [query |-> <<>>, result |-> <<Thrown(got.error[1])>>]
  ELSE IF got.kind = "inherited"
  THEN [query |-> <<>>, result |-> <<Returned("inherited", <<>>)>>]
  ELSE IF got.kind = "finder"
  THEN createFinderFunction(p, got.parsed[1], a)
  ELSE IF p = <<"f", "i", "n", "d", "B", "y", "I", "d">>
  THEN [query |-> findByIdQuery(column,
                    IF Len(a) > 0 THEN <<a[1]>> ELSE <<>>),
        result |-> <<>>]
  ELSE [query |-> <<>>, result |-> <<Returned("base", <<>>)>>]

\* repo[p](...a): the property is read through the proxy and what it answers
\* is called, up to the execution of a query
invoke ==
  /\ ipc = "idle"
  /\ \E p \in Props, a \in Args :
       \E got \in {handlerGet(p, methodCache)} :
         \E called \in {call(p, got, a, idColumn)} :
           /\ prop' = p
           /\ args' = a
           /\ methodCache' = got.cache
           /\ query' = called.query
           /\ result' = called.result
           /\ ipc' = IF called.result = <<>> THEN "awaiting" ELSE "done"
  /\ UNCHANGED <<idColumn, execution, createManyVars, parserVars,
                 normalizerVars, sessionVars>>

\* the execution of the query yields rows
executionYields(rows) ==
  /\ ipc = "awaiting"
  /\ execution' = <<rows>>
  /\ result' = <<returned(query, rows)>>
  /\ ipc' = "done"
  /\ UNCHANGED <<idColumn, prop, args, methodCache, query, createManyVars,
                 parserVars, normalizerVars, sessionVars>>

\* the execution of the query fails
executionFails ==
  /\ ipc = "awaiting"
  /\ result' = <<Thrown([code |-> "EXECUTION_FAILED"])>>
  /\ ipc' = "done"
  /\ UNCHANGED <<idColumn, prop, args, methodCache, query, execution,
                 createManyVars, parserVars, normalizerVars, sessionVars>>

NextInvoke ==
  \/ invoke
  \/ \E rows \in Yields : executionYields(rows)
  \/ executionFails

\* the repository is created without options or with the idColumn option
InitInvoke ==
  /\ createManyIdle
  /\ parserIdle
  /\ finderIdle
  /\ normalizerIdle
  /\ sessionIdle
  /\ idColumn \in {<<"i", "d">>, <<"e", "m", "a", "i", "l">>}

SpecInvoke == InitInvoke /\ [][NextInvoke]_vars

\* ======================================= calls of repositories in a row
\* Two repositories of one process, of the tables users and orders: they
\* share methodCache.
Handles == {"A", "B"}

\* every repository bound to the table of the first
tableNameOfFirst(h) == <<"u", "s", "e", "r", "s">>

\* the tableName the repository was created with
tableName(h) ==
  IF h = "A" THEN <<"u", "s", "e", "r", "s">> ELSE <<"o", "r", "d", "e", "r", "s">>

\* db.selectFrom(tableName): the query of a repository names its table
boundTo(q, h) ==
  IF q = <<>> THEN q ELSE [q EXCEPT ![1].column = tableName(h)]

\* the properties read: two finders, a finder on two fields with an ordering,
\* a malformed finder name, an unknown name and two base operations
SessionProps ==
  {chars["findBy"] \o <<"A", "g", "e">>,
   chars["findAllBy"] \o <<"A", "g", "e">>,
   chars["findAllBy"] \o <<"A", "g", "e">> \o chars["And"] \o <<"I", "d">> \o chars["IsNull"]
     \o chars["OrderBy"] \o <<"A", "g", "e">>,
   chars["findBy"] \o <<"A", "g", "e">> \o chars["And"],
   <<"g", "e", "t", "B", "y", "A", "g", "e">>,
   <<"f", "i", "n", "d", "B", "y", "I", "d">>,
   <<"c", "r", "e", "a", "t", "e", "M", "a", "n", "y">>}

\* the arguments of the calls: none, a value, a value and { limit: 1 }
SessionArgs ==
  {<<>>,
   <<Value(1, "primitive", <<>>, <<>>)>>,
   <<Value(1, "primitive", <<>>, <<>>),
     Value(2, "object", <<Number(1)>>, <<>>)>>}

InitSession ==
  /\ createManyIdle
  /\ parserIdle
  /\ finderIdle
  /\ normalizerIdle
  /\ sessionIdle
  /\ idColumn = <<"i", "d">>

\* repo[p](...a) on one of the repositories, once the call before it has
\* ended: the property is read through the proxy and what it answers is
\* called, up to the execution of a query
invokeOn ==
  /\ ipc \in {"idle", "done"}
  /\ calls < MaxCalls
  /\ \E h \in Handles, p \in SessionProps, a \in SessionArgs :
       \E got \in {handlerGet(p, methodCache)} :
         \E called \in {call(p, got, a, idColumn)} :
           /\ handle' = h
           /\ prop' = p
           /\ args' = a
           /\ methodCache' = got.cache
           /\ parses' = IF got.ran
                        THEN Append(parses, [name |-> p, handle |-> h])
                        ELSE parses
           /\ query' = boundTo(called.query, h)
           /\ result' = called.result
           /\ ipc' = IF called.result = <<>> THEN "awaiting" ELSE "done"
  /\ execution' = <<>>
  /\ calls' = calls + 1
  /\ UNCHANGED <<idColumn, createManyVars, parserVars, normalizerVars>>

NextSession ==
  \/ invokeOn
  \/ \E rows \in Yields : executionYields(rows)
  \/ executionFails

SpecSession == InitSession /\ [][NextSession]_vars

\* ============================================================ toSnakeCase
\* The characters tokens are made of: a lowercase letter, an uppercase
\* letter, a digit and the underscore.
Alphabet == <<"a", "B", "1", "_">>

\* the tokens of at most n characters
RECURSIVE Tokens(_)
Tokens(n) ==
  IF n = 0
  THEN {<<>>}
  ELSE Tokens(n - 1) \cup
         {Append(t, Alphabet[c]) : t \in Tokens(n - 1), c \in DOMAIN Alphabet}

InitNormalize ==
  /\ createManyIdle
  /\ parserIdle
  /\ finderIdle
  /\ sessionIdle
  /\ idColumn = <<"i", "d">>
  /\ token \in Tokens(MaxTokenLen)
  /\ normalized = <<>>

\* toSnakeCase(token), then toSnakeCase of what that call returned
normalize ==
  /\ Len(normalized) < 2
  /\ normalized' = Append(normalized,
                          toSnakeCase(IF normalized = <<>>
                                      THEN token
                                      ELSE normalized[Len(normalized)]))
  /\ UNCHANGED <<token, createManyVars, parserVars, finderVars, sessionVars>>

NextNormalize == normalize

SpecNormalize == InitNormalize /\ [][NextNormalize]_vars

\* ================================================================ claims

\* C1: fan-out. For non-empty records partitioned into N chunks, the insert
\* of every one of the N chunks has been started before createMany waits on
\* any result, and no insert has completed while another chunk's insert was
\* still to be started.
FanOutBeforeWait ==
  /\ (pc \in {"awaiting", "done"} /\ data # <<>>) =>
       (Len(chunks) >= 1 /\ Len(ops) = Len(chunks))
  /\ (\E k \in DOMAIN ops : ops[k].st # "inflight") => Len(ops) = Len(chunks)

\* three inserts in flight at the await, none settled
FanOutWitness ==
  /\ pc = "awaiting"
  /\ Len(ops) = 3
  /\ \A k \in DOMAIN ops : ops[k].st = "inflight"

\* start of the result segment of chunk k: the rows returned by the chunks
\* before it
RECURSIVE SegmentStart(_)
SegmentStart(k) ==
  IF k <= 1 THEN 0 ELSE SegmentStart(k - 1) + Len(ops[k - 1].result)

\* C2: with skipReturn false and every chunk succeeding, the returned
\* sequence consists of the rows returned for chunk 1, then those for chunk
\* 2, and so on, whatever the order in which the chunk operations completed.
ResultInChunkOrder ==
  (outcome.kind = "rows" /\ data # <<>>) =>
    /\ Len(outcome.rows) = SegmentStart(Len(ops) + 1)
    /\ \A k \in DOMAIN ops : \A j \in 1..Len(ops[k].result) :
         outcome.rows[SegmentStart(k) + j] = ops[k].result[j]

\* rows were returned although the last chunk completed first
ResultInChunkOrderWitness ==
  /\ outcome.kind = "rows"
  /\ Len(ops) >= 2
  /\ settled[1] = Len(ops)

\* C3: a chunk failure does not cancel its siblings. An insert leaves the
\* in-flight state only by settling itself, a settled insert never changes,
\* an insert still in flight after createMany failed can still complete, and
\* the failure createMany reported is not changed by what settles later.
SiblingsNotCancelled ==
  /\ [](outcome.kind = "error" =>
          \A k \in DOMAIN ops :
            ops[k].st = "inflight" => ENABLED executeFulfilled(k))
  /\ [][/\ \A k \in DOMAIN ops :
             /\ ops'[k].st \in {"inflight", "fulfilled", "rejected"}
             /\ ops[k].st # "inflight" => ops'[k] = ops[k]
             /\ (ops[k].st = "inflight" /\ ops'[k].st # "inflight") =>
                  settled' = Append(settled, k)
        /\ outcome.kind = "error" => outcome' = outcome]_vars

\* createMany failed on chunk 1; chunk 3 was inserted, chunk 2 is in flight
SiblingsNotCancelledWitness ==
  /\ outcome.kind = "error"
  /\ Len(ops) = 3
  /\ ops[1].st = "rejected"
  /\ ops[2].st = "inflight"
  /\ ops[3].st = "fulfilled"
  /\ table = {ops[3].batch[j] : j \in 1..Len(ops[3].batch)}

\* C4: if a chunk operation fails, createMany returns neither rows nor a
\* count, and the error it fails with is the error of the chunk operation
\* that failed first in time.
FirstFailureSurfaced ==
  /\ (\E k \in DOMAIN ops : ops[k].st = "rejected") =>
       outcome.kind \in {"pending", "error"}
  /\ outcome.kind = "error" =>
       \E p \in 1..Len(settled) :
         /\ ops[settled[p]].st = "rejected"
         /\ outcome.err = ops[settled[p]].err
         /\ \A q \in 1..(p - 1) : ops[settled[q]].st = "fulfilled"

\* two chunks failed and the one with the higher index failed first
FirstFailureWitness ==
  /\ outcome.kind = "error"
  /\ outcome.err = 2
  /\ ops[1].st = "rejected"

\* C5 as stated: when createMany completes, none of its chunk operations is
\* still in flight.
JoinAllSettled ==
  pc = "done" => \A k \in DOMAIN ops : ops[k].st # "inflight"

\* C5 amended: createMany returns a result only after every chunk operation
\* has been started and has succeeded; it fails only after a chunk operation
\* has failed.
JoinOnSuccess ==
  /\ (pall.state = "fulfilled" \/
      (outcome.kind \in {"rows", "count"} /\ data # <<>>)) =>
       /\ Len(ops) = Len(chunks)
       /\ \A k \in DOMAIN ops : ops[k].st = "fulfilled"
  /\ outcome.kind = "error" => \E k \in DOMAIN ops : ops[k].st = "rejected"

\* a count was returned for three chunks
JoinOnSuccessWitness ==
  /\ outcome.kind = "count"
  /\ Len(ops) = 3

\* C6: for chunkSize >= 1 the records are partitioned into ceil(n/chunkSize)
\* non-empty chunks, chunk c holding the records at the 0-based indices
\* [(c-1)*chunkSize, min(c*chunkSize, n)) in their order, every record in
\* exactly one place, and one insert is issued per chunk with that chunk.
PartitionExact ==
  (pc \in {"mapping", "awaiting", "done"} /\ data # <<>> /\ chunkSize >= 1) =>
    LET n == Len(data)
        s == chunkSize
    IN /\ Len(chunks) = (n + s - 1) \div s
       /\ \A c \in DOMAIN chunks :
            /\ Len(chunks[c]) = Min(c * s, n) - (c - 1) * s
            /\ Len(chunks[c]) >= 1
            /\ \A j \in 1..Len(chunks[c]) :
                 chunks[c][j] = data[(c - 1) * s + j]
       /\ \A x \in 1..n :
            chunks[((x - 1) \div s) + 1][((x - 1) % s) + 1] = data[x]
       /\ pc \in {"awaiting", "done"} =>
            /\ Len(ops) = (n + s - 1) \div s
            /\ \A c \in DOMAIN ops : ops[c].batch = chunks[c]

\* three records in chunks of two: a full chunk and a shorter last chunk
PartitionWitness ==
  /\ pc = "awaiting"
  /\ Len(data) = 3
  /\ chunkSize = 2
  /\ Len(chunks) = 2
  /\ Len(chunks[2]) = 1

\* C7: when rows are returned there are as many as there are records, and
\* the row of a record lies in the result segment of the record's chunk.
LengthAndMembership ==
  outcome.kind = "rows" =>
    /\ Len(outcome.rows) = Len(data)
    /\ data # <<>> =>
         \A j \in 1..Len(outcome.rows) :
           \E x \in 1..Len(data) :
             /\ outcome.rows[j] = RowOf(data[x])
             /\ (x - 1) \div chunkSize = (j - 1) \div chunkSize

\* rows of two chunks, one of which the backend returned out of input order
LengthAndMembershipWitness ==
  /\ outcome.kind = "rows"
  /\ Len(ops) = 2
  /\ \E k \in DOMAIN ops : ops[k].result[1] # RowOf(ops[k].batch[1])

\* C8: createMany with empty records returns the empty sequence, or a count
\* of 0 when skipReturn is true, and issues no backend operation, whatever
\* chunkSize is.
EmptyInputNoBackend ==
  (pc # "idle" /\ data = <<>>) =>
    /\ pc = "done"
    /\ IF options # <<>> /\ options[1].skipReturn = <<TRUE>>
       THEN outcome.kind = "count" /\ outcome.count = 0
       ELSE outcome.kind = "rows" /\ outcome.rows = <<>>
    /\ chunks = <<>>
    /\ ops = <<>>
    /\ settled = <<>>
    /\ table = {}

\* the empty call with skipReturn and a chunkSize of 0 has returned
EmptyInputWitness ==
  /\ pc = "done"
  /\ data = <<>>
  /\ options # <<>>
  /\ options[1].chunkSize = <<0>>
  /\ options[1].skipReturn = <<TRUE>>

\* sum of the affected-row counts the first k chunk operations yielded
RECURSIVE YieldedSum(_)
YieldedSum(k) ==
  IF k = 0
  THEN 0
  ELSE YieldedSum(k - 1)
         + (IF ops[k].result # <<>> /\ ops[k].result[1] # <<>>
            THEN ops[k].result[1][1] ELSE 0)

\* C9: with skipReturn true and every chunk succeeding, the returned count is
\* the sum of the affected-row counts the chunk operations yielded, whatever
\* the order in which they completed.
CountIsSum ==
  (outcome.kind = "count" /\ data # <<>>) =>
    outcome.count = YieldedSum(Len(ops))

\* three chunks that completed last chunk first, each yielding a count of 1
CountIsSumWitness ==
  /\ outcome.kind = "count"
  /\ Len(ops) = 3
  /\ settled[1] = 3
  /\ \A k \in DOMAIN ops : ops[k].result = << <<1>> >>
  /\ outcome.count = 3

\* C10: whatever chunkSize the caller passes, the chunk size used for
\* partitioning is at least 1 and partitioning yields at most one chunk per
\* record.
ChunkSizeAtLeastOne ==
  (pc # "idle" /\ data # <<>>) =>
    /\ chunkSize >= 1
    /\ Len(chunks) <= Len(data)

\* ------------------------------------------- the calls of a repository
\* a derived finder was called: its name was resolved and cached
finderCalled == ipc # "idle" /\ cacheGet(methodCache, prop) # <<>>

\* the parsed method of the finder called
intent == cacheGet(methodCache, prop)[1]

\* the predicates of the finder called that consume a value
consuming ==
  {k \in DOMAIN intent.columns :
     intent.columns[k].comparison \notin {"isNull", "isNotNull"}}

\* the call failed with an error of this code
threw(code) ==
  /\ result # <<>>
  /\ result[1].kind = "error"
  /\ result[1].error[1].code = code

\* the arguments of the call that were taken as predicate values: the count
\* the error reports, or the caller's values the filters were given
positional ==
  IF threw("ARGUMENT_COUNT_MISMATCH")
  THEN result[1].error[1].received
  ELSE Cardinality({k \in DOMAIN query :
                      /\ query[k].call = "where"
                      /\ query[k].value # <<>>
                      /\ query[k].value[1].id > 0})

\* the last argument is an object with this shape of limit and offset
lastArgIs(limit, offset) ==
  /\ args # <<>>
  /\ args[Len(args)].kind = "object"
  /\ args[Len(args)].limit = limit
  /\ args[Len(args)].offset = offset

\* C11: arity validation. When the number of arguments remaining after the
\* extraction of the options differs from the number of predicates that
\* consume a value, the call fails with ArgumentCountMismatch carrying the
\* expected and the received count, and no query has been built; when the two
\* numbers are equal, no ArgumentCountMismatch is raised.
ArityValidated ==
  finderCalled =>
    LET remaining == extractOptions(args, intent.prefix = "findAllBy").values
    IN IF Len(remaining) # Cardinality(consuming)
       THEN /\ query = <<>>
            /\ execution = <<>>
            /\ result = <<Thrown(ArgumentCountMismatch(prop,
                                   Cardinality(consuming), Len(remaining)))>>
       ELSE ~ threw("ARGUMENT_COUNT_MISMATCH")

\* C11 happens: a finder of two value predicates called with one value
ArityWitness ==
  /\ finderCalled
  /\ threw("ARGUMENT_COUNT_MISMATCH")
  /\ result[1].error[1].expected = 2
  /\ result[1].error[1].received = 1
  /\ query = <<>>

\* C12: predicate binding. The filters are applied in the order of the
\* predicates; the k-th predicate that consumes a value is given the k-th
\* remaining positional argument, and an IsNull or IsNotNull predicate is
\* given no argument (it filters on null).
BoundLeftToRight ==
  (finderCalled /\ query # <<>>) =>
    LET remaining == extractOptions(args, intent.prefix = "findAllBy").values
    IN \A k \in DOMAIN intent.columns :
         LET filter == query[2 + k]
             nth == Cardinality({j \in consuming : j <= k})
         IN /\ filter.call = "where"
            /\ filter.column = intent.columns[k].name
            /\ filter.value = IF k \in consuming
                              THEN <<remaining[nth]>>
                              ELSE <<Null>>

\* C12 happens: a null check, then two predicates given the first and the
\* second argument
BoundWitness ==
  /\ finderCalled
  /\ Len(args) >= 2
  /\ Len(query) >= 5
  /\ query[3].value = <<Null>>
  /\ query[4].value = <<args[1]>>
  /\ query[5].value = <<args[2]>>
  /\ query[5].call = "where"

\* C13 as stated: the last argument is removed from the predicate values
\* exactly when the finder is a findAllBy finder and that argument is an
\* object having a limit or an offset key.
OptionsByKeys ==
  finderCalled =>
    (positional = Len(args) - 1
       <=> /\ intent.prefix = "findAllBy"
           /\ args # <<>>
           /\ args[Len(args)].kind = "object"
           /\ (args[Len(args)].limit # <<>> \/ args[Len(args)].offset # <<>>))

\* C13 amended: the last argument is removed from the predicate values
\* exactly when the finder is a findAllBy finder and that argument is an
\* object having a limit key whose value is a number or undefined, or an
\* offset key whose value is a number or undefined; a findBy finder removes
\* no argument.
OptionsByKeysAndTypes ==
  finderCalled =>
    /\ positional \in {Len(args), Len(args) - 1}
    /\ positional = Len(args) - 1
         <=> /\ intent.prefix = "findAllBy"
             /\ args # <<>>
             /\ args[Len(args)].kind = "object"
             /\ \/ /\ args[Len(args)].limit # <<>>
                   /\ args[Len(args)].limit[1].type \in {"number", "undefined"}
                \/ /\ args[Len(args)].offset # <<>>
                   /\ args[Len(args)].offset[1].type
                        \in {"number", "undefined"}

\* C13 happens: a findAllBy finder called with { limit: 'x' } last takes it
\* as a predicate value
OptionsWitness ==
  /\ finderCalled
  /\ intent.prefix = "findAllBy"
  /\ lastArgIs(<<String>>, <<>>)
  /\ positional = Len(args)
  /\ query # <<>>

\* the twelve base operations
BaseOperations ==
  {<<"f", "i", "n", "d", "A", "l", "l">>,
   <<"f", "i", "n", "d", "B", "y", "I", "d">>,
   <<"c", "r", "e", "a", "t", "e">>,
   <<"u", "p", "d", "a", "t", "e">>,
   <<"d", "e", "l", "e", "t", "e">>,
   <<"s", "a", "v", "e">>,
   <<"c", "r", "e", "a", "t", "e", "M", "a", "n", "y">>,
   <<"u", "p", "d", "a", "t", "e", "M", "a", "n", "y">>,
   <<"d", "e", "l", "e", "t", "e", "M", "a", "n", "y">>,
   <<"c", "o", "u", "n", "t">>,
   <<"e", "x", "i", "s", "t", "s">>,
   <<"q", "u", "e", "r", "y">>}

BaseFirst ==
  (ipc # "idle" /\ prop \in BaseOperations) =>
    /\ methodCache = {}
    /\ IF prop = <<"f", "i", "n", "d", "B", "y", "I", "d">>
       THEN /\ Len(query) = 4
            /\ query[3] = Call("where", idColumn, "=",
                               IF args = <<>> THEN <<>> ELSE <<args[1]>>)
            /\ query[4].call = "executeTakeFirst"
       ELSE query = <<>> /\ result = <<Returned("base", <<>>)>>

\* C15 happens: findById of a repository whose id column is email
BaseFirstWitness ==
  /\ prop = <<"f", "i", "n", "d", "B", "y", "I", "d">>
  /\ idColumn = <<"e", "m", "a", "i", "l">>
  /\ ipc = "done"
  /\ result # <<>>
  /\ result[1].kind = "row"

\* C16: result arity. A findBy finder whose query was executed returns the
\* first row the backend yields, or null when it yields none; a findAllBy
\* finder returns all the rows the backend yields.
ResultArity ==
  (finderCalled /\ execution # <<>>) =>
    LET rows == execution[1]
    IN IF intent.prefix = "findBy"
       THEN result = <<IF rows = <<>>
                       THEN Returned("null", <<>>)
                       ELSE Returned("row", <<rows[1]>>)>>
       ELSE result = <<Returned("rows", rows)>>

\* C16 happens: a findBy finder whose query yields no row returned null
ResultArityWitness ==
  /\ finderCalled
  /\ intent.prefix = "findBy"
  /\ execution = <<<<>>>>
  /\ result # <<>>
  /\ result[1].kind = "null"

\* ------------------------------------------------------ parseFinderMethod
\* the method name begins with a finder prefix
hasPrefix ==
  startsWith(input, chars["findAllBy"]) \/ startsWith(input, chars["findBy"])

\* the text of the method name after its prefix
afterPrefix ==
  IF startsWith(input, chars["findAllBy"])
  THEN SubSeq(input, Len(chars["findAllBy"]) + 1, Len(input))
  ELSE SubSeq(input, Len(chars["findBy"]) + 1, Len(input))

\* where the first OrderBy of that text begins (0-based), -1 when it has none
orderByAt == indexOf(afterPrefix, chars["OrderBy"])

\* the text of the predicates: up to the first OrderBy
predicateText ==
  IF orderByAt = -1 THEN afterPrefix ELSE SubSeq(afterPrefix, 1, orderByAt)

\* the text of the ordering: after the first OrderBy
orderingText ==
  SubSeq(afterPrefix, orderByAt + Len(chars["OrderBy"]) + 1, Len(afterPrefix))

\* splitting the text of the predicates on And gives an empty part: the text
\* begins or ends with And, or has two And in a row
emptyPart ==
  \/ startsWith(predicateText, chars["And"])
  \/ endsWith(predicateText, chars["And"])
  \/ indexOf(predicateText, chars["And"] \o chars["And"]) # -1

\* parseFinderMethod returned a parsed method
parsedOk == parsed # <<>> /\ parsed[1].error = <<>>

\* C17: parse fails with InvalidFinderName carrying the method name when the
\* name has no finder prefix (the empty name included), has nothing after the
\* prefix, has nothing after its first OrderBy, has nothing between the prefix
\* and the first OrderBy, or gives an empty part when split on And.
InvalidNamesRejected ==
  (/\ parsed # <<>>
   /\ \/ ~ hasPrefix
      \/ afterPrefix = <<>>
      \/ orderByAt # -1 /\ orderingText = <<>>
      \/ orderByAt = 0
      \/ emptyPart)
    => /\ parsed[1].error # <<>>
       /\ parsed[1].error[1].code = "INVALID_FINDER_NAME"
       /\ parsed[1].error[1].methodName = input
       /\ parsed[1].columns = <<>>

\* C17 happens: a name whose predicates end with And was rejected
InvalidNamesWitness ==
  /\ parsed # <<>>
  /\ hasPrefix
  /\ orderByAt = -1
  /\ ~ startsWith(predicateText, chars["And"])
  /\ endsWith(predicateText, chars["And"])
  /\ parsed[1].error # <<>>
  /\ parsed[1].error[1].methodName = input

\* the suffixes that name an operator
Candidates ==
  {"GreaterThanEqual", "LessThanEqual", "GreaterThan", "LessThan",
   "IsNotNull", "IsNull", "Like", "In"}

\* the candidates the part ends with
candidatesOf(part) == {c \in Candidates : endsWith(part, chars[c])}

\* the longest of them
longest(cs) == CHOOSE c \in cs : \A d \in cs : Len(chars[d]) <= Len(chars[c])

\* the predicate the part stands for
predicateOf(part) ==
  IF candidatesOf(part) = {}
  THEN [name |-> toSnakeCase(part), comparison |-> "eq"]
  ELSE LET c == longest(candidatesOf(part))
       IN [name |-> toSnakeCase(SubSeq(part, 1, Len(part) - Len(chars[c]))),
           comparison |-> COMPARISON_MAP[c]]

\* C18: the predicates of a parsed method are one per part of the text of
\* the predicates split on And, in the order of the parts; a part ending
\* with candidate suffixes takes the operator of the longest of them and the
\* normalized rest of the part as its field, any other part is Equals on the
\* normalized part.
PredicatePerPart ==
  parsedOk =>
    LET parts == split(predicateText, chars["And"])
    IN /\ Len(parsed[1].columns) = Len(parts)
       /\ \A k \in DOMAIN parts : parsed[1].columns[k] = predicateOf(parts[k])

\* C18 happens: UserIDGreaterThanEqual became user_id >=
PredicateWitness ==
  /\ parsedOk
  /\ parsed[1].columns =
       <<[name |-> <<"u", "s", "e", "r", "_", "i", "d">>, comparison |-> "gte"]>>

\* C19: a parsed method has no ordering when the name has no OrderBy; else
\* the text after the first OrderBy gives the ordering: descending when it
\* ends with Desc and ascending otherwise, on the normalized text without the
\* Desc or Asc it ends with. An And in that text is no conjunction: the
\* predicates come from the text before the first OrderBy alone.
OrderingParsed ==
  parsedOk =>
    /\ Len(parsed[1].columns) = Len(split(predicateText, chars["And"]))
    /\ parsed[1].orderBy =
         IF orderByAt = -1
         THEN <<>>
         ELSE LET stripped ==
                    IF endsWith(orderingText, chars["Desc"])
                    THEN SubSeq(orderingText, 1, Len(orderingText) - 4)
                    ELSE IF endsWith(orderingText, chars["Asc"])
                    THEN SubSeq(orderingText, 1, Len(orderingText) - 3)
                    ELSE orderingText
              IN <<[column |-> toSnakeCase(stripped),
                    direction |-> IF endsWith(orderingText, chars["Desc"])
                                  THEN "desc" ELSE "asc"]>>

\* C19 happens: a descending ordering on a field, after one predicate
OrderingWitness ==
  /\ parsedOk
  /\ Len(parsed[1].columns) = 1
  /\ parsed[1].orderBy = <<[column |-> <<"a", "g", "e">>, direction |-> "desc"]>>

\* C20 as stated: every predicate of a parsed method has a non-empty field
\* and a parsed method has at least one predicate.
EveryPredicateHasField ==
  parsedOk =>
    /\ parsed[1].columns # <<>>
    /\ \A k \in DOMAIN parsed[1].columns : parsed[1].columns[k].name # <<>>

\* C21 as stated: every ordering of a parsed method has a non-empty field.
EveryOrderingHasField ==
  (parsedOk /\ parsed[1].orderBy # <<>>) => parsed[1].orderBy[1].column # <<>>

\* the parts of the text of the predicates
predicateParts == split(predicateText, chars["And"])

wordStartsAt(t, k) ==
  /\ k > 1
  /\ isUpper(t[k])
  /\ \/ isLowerOrDigit(t[k - 1])
     \/ /\ isUpper(t[k - 1])
        /\ k < Len(t)
        /\ isLower(t[k + 1])

\* the token with these underscores, from the k-th character on
RECURSIVE underscoredFrom(_, _)
underscoredFrom(t, k) ==
  IF k > Len(t)
  THEN <<>>
  ELSE (IF wordStartsAt(t, k) THEN <<"_", t[k]>> ELSE <<t[k]>>)
         \o underscoredFrom(t, k + 1)

\* the lowercase letter of a character
lowered(c) ==
  IF \E u \in DOMAIN UpperChars : UpperChars[u] = c
  THEN LowerChars[CHOOSE u \in DOMAIN UpperChars : UpperChars[u] = c]
  ELSE c

\* C22 as stated: the result is the token lowercased with an underscore
\* before each uppercase letter that follows a lowercase letter or a digit
\* and before the last letter of every run of two or more uppercase letters
\* that is followed by a lowercase letter.
AcronymRule ==
  normalized # <<>> =>
    normalized[1] =
      [k \in DOMAIN underscoredFrom(token, 1) |->
         lowered(underscoredFrom(token, 1)[k])]

\* C23: normalizing the result of a normalization gives that result again; a
\* token without uppercase letters is returned unchanged; the empty token
\* gives the empty identifier.
NormalizeIdempotent ==
  /\ Len(normalized) = 2 => normalized[2] = normalized[1]
  /\ (normalized # <<>> /\ \A k \in DOMAIN token : ~ isUpper(token[k]))
       => normalized[1] = token
  /\ (normalized # <<>> /\ token = <<>>) => normalized[1] = <<>>

\* C23 happens: a token with an acronym was normalized twice
NormalizeWitness ==
  /\ token = <<"a", "B", "B", "a">>
  /\ normalized = <<<<"a", "_", "b", "_", "b", "a">>,
                    <<"a", "_", "b", "_", "b", "a">>>>

\* ------------------------------------------------- the order of a query
\* the place of a call in the building of a query
stage(c) ==
  CASE c = "selectFrom" -> 1
    [] c = "selectAll" -> 2
    [] c = "where" -> 3
    [] c = "orderBy" -> 4
    [] c = "limit" -> 5
    [] c = "offset" -> 6
    [] OTHER -> 7

\* the calls of this name made on the query builder
callsOf(c) == {k \in DOMAIN query : query[k].call = c}

\* C27: a derived finder that passes its checks builds its query in the
\* order filters, ordering, limit, offset and executes it last: there is one
\* execution, nothing is called after it, the ordering is applied exactly
\* when the parsed method has one, limit and offset only when the options
\* have them, and the backend yields only for a query built to its end.
BuiltThenExecuted ==
  (finderCalled /\ query # <<>>) =>
    /\ \A j, k \in DOMAIN query :
         j < k => stage(query[j].call) <= stage(query[k].call)
    /\ Cardinality({k \in DOMAIN query : stage(query[k].call) = 7}) = 1
    /\ stage(query[Len(query)].call) = 7
    /\ Cardinality(callsOf("where")) = Len(intent.columns)
    /\ Cardinality(callsOf("orderBy"))
         = (IF intent.orderBy = <<>> THEN 0 ELSE 1)
    /\ Cardinality(callsOf("limit")) <= 1
    /\ Cardinality(callsOf("offset")) <= 1
    /\ callsOf("limit") # {}
         => positional = Len(args) - 1 /\ args[Len(args)].limit # <<>>
    /\ callsOf("offset") # {}
         => positional = Len(args) - 1 /\ args[Len(args)].offset # <<>>
    /\ ipc \in {"awaiting", "done"}
    /\ ipc = "awaiting" => execution = <<>> /\ result = <<>>

\* C27 happens: filter, ordering, limit and offset were applied and the
\* query was executed
BuiltWitness ==
  /\ finderCalled
  /\ Len(query) = 7
  /\ \A k \in 3..7 : stage(query[k].call) = k
  /\ execution # <<>>
  /\ ipc = "done"

\* ------------------------------------------- calls of repositories in a row
\* the parseFinderMethod calls made for a name
parsesOf(name) == {k \in DOMAIN parses : parses[k].name = name}

\* what a call gives when the method name is parsed anew: the query built
\* and, if the call ends without an execution, its result
reparsed(p, a) == call(p, handlerGet(p, {}), a, idColumn)

\* the name of the call was first resolved through the other repository
resolvedThrough(h) ==
  /\ parsesOf(prop) # {}
  /\ \A k \in parsesOf(prop) : parses[k].handle = h

\* C24 as stated: parseFinderMethod is called at most once for every
\* method name.
ParsedOncePerName ==
  \A j, k \in DOMAIN parses : parses[j].name = parses[k].name => j = k

\* C24 amended: a method name that parses is parsed once, at its first
\* resolve, and what the parser returned is stored under that very name; the
\* later resolves of the name find it stored, so the stored names are the
\* names parsed with success and each of them was parsed exactly once. Only
\* a name the parser rejects is parsed more than once.
ParsedOncePerStoredName ==
  /\ \A e \in methodCache :
       /\ Cardinality(parsesOf(e.key)) = 1
       /\ e.value = parseFinderMethod(e.key)
       /\ e.value.error = <<>>
  /\ \A k \in DOMAIN parses :
       \/ \E e \in methodCache : e.key = parses[k].name
       \/ parseFinderMethod(parses[k].name).error # <<>>
  /\ \A e, f \in methodCache : e.key = f.key => e = f

\* C24 happens: a finder parsed through repository A was called through
\* repository B and not parsed again
ParsedOnceWitness ==
  /\ calls >= 2
  /\ handle = "B"
  /\ cacheGet(methodCache, prop) # <<>>
  /\ resolvedThrough("A")
  /\ query # <<>>

\* C25: whatever calls were made before, a call gives what it gives when its
\* method name is parsed anew: the same query on the table of its
\* repository, the same error, the same result for the rows the backend
\* yields, and the stored parsed method is what the parser returns.
CacheTransparent ==
  ipc # "idle" =>
    LET anew == reparsed(prop, args)
    IN /\ query = boundTo(anew.query, handle)
       /\ anew.result # <<>> => result = anew.result /\ ipc = "done"
       /\ anew.result = <<>> =>
            \/ ipc = "awaiting" /\ result = <<>>
            \/ ipc = "done" /\ execution = <<>>
                 /\ threw("EXECUTION_FAILED")
            \/ ipc = "done" /\ execution # <<>>
                 /\ result = <<returned(anew.query, execution[1])>>
       /\ \A e \in methodCache : e.value = parseFinderMethod(e.key)

\* C25 happens: the third call, of a finder stored by an earlier call,
\* returned the rows of its query with limit
TransparentWitness ==
  /\ calls = 3
  /\ Len(parses) = 1
  /\ parses[1].name = prop
  /\ parses[1].handle = handle
  /\ callsOf("limit") # {}
  /\ result # <<>>
  /\ result[1].kind = "rows"
  /\ result[1].rows = <<2, 1>>

\* C26: the cache only grows: every step keeps every entry as it is, and
\* no name has two entries.
CacheAppendOnly ==
  [][/\ \A e \in methodCache : e \in methodCache'
     /\ \A e, f \in methodCache' : e.key = f.key => e = f]_vars

\* C26 happens: two names are stored and a call of a base operation, a
\* failing call or an execution has followed
AppendOnlyWitness ==
  /\ Cardinality(methodCache) = 2
  /\ calls = 3
  /\ cacheGet(methodCache, prop) = <<>>

\* C28: a call that is rejected with InvalidFinderName or
\* MethodNotImplemented leaves the cache as it was, builds no query and
\* executes none; a rejected name is never stored, and the error of a
\* malformed name is the error of the parser, whatever was called before.
RejectedNoEffect ==
  [][(/\ calls' = calls + 1
      /\ result' # <<>>
      /\ result'[1].kind = "error"
      /\ result'[1].error[1].code
           \in {"INVALID_FINDER_NAME", "METHOD_NOT_IMPLEMENTED"})
       => /\ methodCache' = methodCache
          /\ cacheGet(methodCache', prop') = <<>>
          /\ query' = <<>>
          /\ execution' = <<>>
          /\ ipc' = "done"
          /\ result'[1].error[1].code = "INVALID_FINDER_NAME"
               => result'[1].error = parseFinderMethod(prop').error]_vars

\* C28 happens: a malformed name was rejected a second time, with names
\* stored
RejectedWitness ==
  /\ threw("INVALID_FINDER_NAME")
  /\ Cardinality(parsesOf(prop)) = 2
  /\ methodCache # {}

\* C29: a finder called through repository B whose name was resolved
\* through repository A builds its query on the table of B with the
\* arguments of its own call, as it does when the name is parsed anew.
HandlesIndependent ==
  (/\ ipc # "idle"
   /\ handle = "B"
   /\ cacheGet(methodCache, prop) # <<>>
   /\ resolvedThrough("A"))
    => LET anew == reparsed(prop, args)
       IN /\ anew.result = <<>> =>
               /\ query[1] = Call("selectFrom", <<"o", "r", "d", "e", "r", "s">>, "", <<>>)
               /\ SubSeq(query, 2, Len(query))
                    = SubSeq(anew.query, 2, Len(anew.query))
               /\ \A k \in callsOf("where") :
                    query[k].value \in {<<Null>>} \cup
                                        {<<args[j]>> : j \in DOMAIN args}
          /\ anew.result # <<>> => query = <<>> /\ result = anew.result

\* C29 happens: repository B awaits its query on orders for a finder that
\* repository A resolved
HandlesWitness ==
  /\ ipc = "awaiting"
  /\ handle = "B"
  /\ resolvedThrough("A")
  /\ query # <<>>
  /\ query[1].column = <<"o", "r", "d", "e", "r", "s">>
  /\ callsOf("where") # {}

====
